---- MODULE Spec2Model ----
(***************************************************************************)
(* EvmBankKeeper (x/evm/keeper/bank_keeper.go): the wrapper that lets the  *)
(* EVM use an 18-decimal coin (EvmDenom) on top of a bank ledger whose     *)
(* native coin (CosmosDenom) has 6 decimals.                               *)
(*                                                                         *)
(* The bank ledger is a pair (bal, sup): balances per address and          *)
(* denomination, and the supply per denomination.  A keeper method is a    *)
(* function from a ledger value to a ledger value that also carries the    *)
(* error it returned and the trace of bank calls it issued.  One action    *)
(* per public method runs the whole method; when the method returns an     *)
(* error or panics, the enclosing transaction is rolled back and the       *)
(* ledger keeps its previous value.                                        *)
(*                                                                         *)
(* sdkmath.Int is arbitrary precision; TLC's integers are 32 bits wide, so *)
(* the package variable ConversionMultiplier (10^12 in the source) is set  *)
(* by Init to a small value.  The keeper uses it only through Mul, Quo and *)
(* Mod, which do not depend on its magnitude.                              *)
(***************************************************************************)
EXTENDS Integers, Sequences, FiniteSets

VARIABLES
    ConversionMultiplier,  \* the package-level var of bank_keeper.go:15
    bal,                   \* bank balances: address -> denom -> amount
    sup,                   \* bank supply: denom -> amount
    op,                    \* the last keeper call and its arguments
    out,                   \* what that call returned, before any rollback
    pre                    \* the ledger the call started from

vars == <<ConversionMultiplier, bal, sup, op, out, pre>>

----------------------------------------------------------------------------
(* Bounds of the model *)

Multiplier == 3        \* value Init gives ConversionMultiplier
MaxAmount == 5         \* callers pass 0 .. MaxAmount EvmDenom
InitCosmos == 2        \* users start with 0 .. InitCosmos CosmosDenom
MaxCosmosSupply == 2   \* calls that would take the CosmosDenom supply above this are not taken
MaxEvmSupply == 5      \* same for the EvmDenom supply
MaxSend == 1           \* SendCoins callers pass coins of 0 .. MaxSend
ScenarioSlack == 1     \* Scenario A starts with its balance plus 0 .. ScenarioSlack

----------------------------------------------------------------------------
(* Denominations, addresses, module accounts *)

EvmDenom == "aorai"
CosmosDenom == "orai"
OtherDenom == "uatom"

LedgerDenoms == {CosmosDenom, EvmDenom}
Denoms == {CosmosDenom, EvmDenom, OtherDenom}

\* position of a denomination in the lexicographic order sdk.Coins is sorted by
DenomRank(d) == CASE d = "aorai" -> 1 [] d = "orai" -> 2 [] OTHER -> 3

EvmModuleName == "evm"         \* evmtypes.ModuleName
EscrowModuleName == "escrow"   \* a named module account other than x/evm
Modules == {EvmModuleName, EscrowModuleName}
Users == {"A"}
Addrs == Users \cup Modules

\* ak.GetModuleAddress: the address of a module account (opaque; the name stands for it)
GetModuleAddress(moduleName) == moduleName

\* module accounts holding the Minter / Burner permission
Minters == {EvmModuleName}
Burners == {EvmModuleName}

----------------------------------------------------------------------------
(* sdk.Coin, sdk.Coins *)

NewCoin(denom, amount) == [denom |-> denom, amount |-> amount]

\* sdk.NewCoins of one coin: zero coins are removed
NewCoins(coin) == IF coin.amount = 0 THEN <<>> ELSE <<coin>>

\* the amount of the first coin of a coin set, 0 for the empty set
AmountOfFirst(coins) == IF Len(coins) = 0 THEN 0 ELSE coins[1].amount

\* sdk.Coins.Validate: every amount strictly positive, denominations strictly ascending
CoinsValidate(coins) ==
    /\ \A i \in 1..Len(coins) : coins[i].amount > 0
    /\ \A i \in 1..(Len(coins) - 1) : DenomRank(coins[i].denom) < DenomRank(coins[i + 1].denom)

----------------------------------------------------------------------------
(* ValidateEvmCoins, SplitAoraiCoins *)

ErrInvalidCoins == "invalid coins"
ErrInsufficientFunds == "insufficient funds"
Panic == "panic"

\* the error ValidateEvmCoins returns ("" for nil)
ValidateEvmCoins(coins, evmDenom) ==
    IF Len(coins) = 0 THEN ""
    ELSE IF ~CoinsValidate(coins) THEN ErrInvalidCoins
    ELSE IF Len(coins) # 1 \/ coins[1].denom # evmDenom THEN ErrInvalidCoins
    ELSE ""

\* SplitAoraiCoins with the whole part rounded up instead of truncated
SplitAoraiCoinsRoundUp(coins, evmDenom, cosmosDenom) ==
    LET zero == [orai |-> NewCoin(cosmosDenom, 0), aorai |-> 0, err |-> ""]
    IN  IF Len(coins) = 0 THEN zero
        ELSE IF ValidateEvmCoins(coins, evmDenom) # ""
             THEN [zero EXCEPT !.err = ValidateEvmCoins(coins, evmDenom)]
        ELSE LET coin == coins[1]
                 remainingBalance == coin.amount % ConversionMultiplier
                 oraiAmount == (coin.amount + ConversionMultiplier - 1) \div ConversionMultiplier
             IN  [orai  |-> IF oraiAmount > 0 THEN NewCoin(cosmosDenom, oraiAmount)
                                              ELSE NewCoin(cosmosDenom, 0),
                  aorai |-> IF remainingBalance > 0 THEN remainingBalance ELSE 0,
                  err   |-> ""]

\* SplitAoraiCoins that keeps one whole unit in the remainder: r in 1 .. multiplier
SplitAoraiCoinsOffByOne(coins, evmDenom, cosmosDenom) ==
    LET zero == [orai |-> NewCoin(cosmosDenom, 0), aorai |-> 0, err |-> ""]
    IN  IF Len(coins) = 0 THEN zero
        ELSE IF ValidateEvmCoins(coins, evmDenom) # ""
             THEN [zero EXCEPT !.err = ValidateEvmCoins(coins, evmDenom)]
        ELSE LET coin == coins[1]
                 remainingBalance == ((coin.amount - 1) % ConversionMultiplier) + 1
                 oraiAmount == (coin.amount - 1) \div ConversionMultiplier
             IN  [orai  |-> IF oraiAmount > 0 THEN NewCoin(cosmosDenom, oraiAmount)
                                              ELSE NewCoin(cosmosDenom, 0),
                  aorai |-> IF remainingBalance > 0 THEN remainingBalance ELSE 0,
                  err   |-> ""]

\* (orai, aorai, err) of SplitAoraiCoins
SplitAoraiCoins(coins, evmDenom, cosmosDenom) ==
    LET zero == [orai |-> NewCoin(cosmosDenom, 0), aorai |-> 0, err |-> ""]
    IN  IF Len(coins) = 0 THEN zero
        ELSE IF ValidateEvmCoins(coins, evmDenom) # ""
             THEN [zero EXCEPT !.err = ValidateEvmCoins(coins, evmDenom)]
        ELSE LET coin == coins[1]
                 remainingBalance == coin.amount % ConversionMultiplier
                 oraiAmount == coin.amount \div ConversionMultiplier
             IN  [orai  |-> IF oraiAmount > 0 THEN NewCoin(cosmosDenom, oraiAmount)
                                              ELSE NewCoin(cosmosDenom, 0),
                  aorai |-> IF remainingBalance > 0 THEN remainingBalance ELSE 0,
                  err   |-> ""]

----------------------------------------------------------------------------
(* The bank ledger (evmtypes.BankKeeper bk): a ledger value carries the      *)
(* balances and supply, the error of the call in progress ("" for none), the *)
(* trace of bank calls issued so far and the value a read returned.          *)

Ledger(b, s) == [bal |-> b, sup |-> s, err |-> "", calls |-> <<>>, value |-> 0]

Called(L, by, fn, from, to, denom, amount) ==
    [L EXCEPT !.calls = Append(@, [by |-> by, fn |-> fn, from |-> from, to |-> to,
                                   denom |-> denom, amount |-> amount, err |-> ""])]

\* the keeper itself fails with e
Failed(L, e) == [L EXCEPT !.err = e]

\* the bank call traced last fails with e
BankFailed(L, e) == [L EXCEPT !.err = e, !.calls[Len(L.calls)].err = e]

\* bk.GetBalance / bk.SpendableCoins(...).AmountOf: a read, traced
BankRead(L, by, fn, addr, denom) == Called(L, by, fn, addr, "", denom, 0)

\* the transfer shared by the three bank send calls: fails when the sender is short
BankTransfer(L, by, fn, from, to, coin) ==
    LET L1 == Called(L, by, fn, from, to, coin.denom, coin.amount)
    IN  IF L.bal[from][coin.denom] < coin.amount
        THEN BankFailed(L1, ErrInsufficientFunds)
        ELSE [L1 EXCEPT !.bal[from][coin.denom] = @ - coin.amount,
                        !.bal[to][coin.denom] = @ + coin.amount]

BankSendCoinsFromAccountToModule(L, by, senderAddr, recipientModule, coin) ==
    BankTransfer(L, by, "SendCoinsFromAccountToModule", senderAddr,
                 GetModuleAddress(recipientModule), coin)

BankSendCoinsFromModuleToAccount(L, by, senderModule, recipientAddr, coin) ==
    BankTransfer(L, by, "SendCoinsFromModuleToAccount", GetModuleAddress(senderModule),
                 recipientAddr, coin)

\* the amount of a denomination in a coin set (sdk.Coins.AmountOf)
AmountOf(coins, denom) ==
    IF \E i \in 1..Len(coins) : coins[i].denom = denom
    THEN coins[CHOOSE i \in 1..Len(coins) : coins[i].denom = denom].amount
    ELSE 0

\* bk.SendCoins: rejects an invalid coin set, fails when the sender is short of
\* any coin, else moves every coin of the set from one address to the other
BankSendCoins(L, by, from, to, amt) ==
    LET L1 == Called(L, by, "SendCoins", from, to, "", 0)
        taken == [L.bal EXCEPT ![from] = [d \in DOMAIN @ |-> @[d] - AmountOf(amt, d)]]
        given == [taken EXCEPT ![to] = [d \in DOMAIN @ |-> @[d] + AmountOf(amt, d)]]
    IN  IF ~CoinsValidate(amt) THEN BankFailed(L1, ErrInvalidCoins)
        ELSE IF \E d \in DOMAIN L.bal[from] : L.bal[from][d] < AmountOf(amt, d)
        THEN BankFailed(L1, ErrInsufficientFunds)
        ELSE [L1 EXCEPT !.bal = given]

\* bk.MintCoins: panics when the module may not mint; adds to balance and supply
BankMintCoins(L, by, moduleName, coin) ==
    LET L1 == Called(L, by, "MintCoins", "", GetModuleAddress(moduleName), coin.denom, coin.amount)
    IN  IF moduleName \notin Minters
        THEN BankFailed(L1, Panic)
        ELSE [L1 EXCEPT !.bal[GetModuleAddress(moduleName)][coin.denom] = @ + coin.amount,
                        !.sup[coin.denom] = @ + coin.amount]

\* bk.BurnCoins: panics when the module may not burn; fails when the module is short
BankBurnCoins(L, by, moduleName, coin) ==
    LET L1 == Called(L, by, "BurnCoins", GetModuleAddress(moduleName), "", coin.denom, coin.amount)
    IN  IF moduleName \notin Burners
        THEN BankFailed(L1, Panic)
        ELSE IF L.bal[GetModuleAddress(moduleName)][coin.denom] < coin.amount
        THEN BankFailed(L1, ErrInsufficientFunds)
        ELSE [L1 EXCEPT !.bal[GetModuleAddress(moduleName)][coin.denom] = @ - coin.amount,
                        !.sup[coin.denom] = @ - coin.amount]

----------------------------------------------------------------------------
(* EvmBankKeeper *)

\* GetBalance that forgets the cosmos part of the account
GetBalanceEvmOnly(L, addr, denom) ==
    IF denom # EvmDenom THEN Failed(L, Panic)
    ELSE LET L1 == BankRead(L, "GetBalance", "SpendableCoins", addr, "")
             evmAmount == L.bal[addr][denom]
         IN  [L1 EXCEPT !.value = evmAmount]

\* GetBalance without the denom check: any denom is read from the ledger
GetBalanceAnyDenom(L, addr, denom) ==
    LET L1 == BankRead(L, "GetBalance", "SpendableCoins", addr, "")
        cosmosAmount == L.bal[addr][CosmosDenom]
        evmAmount == IF denom \in LedgerDenoms THEN L.bal[addr][denom] ELSE 0
        total == cosmosAmount * ConversionMultiplier + evmAmount
    IN  [L1 EXCEPT !.value = total]

\* GetBalance that re-aggregates the account's evm coin into cosmos coin as it reads
GetBalanceNormalizing(L, addr, denom) ==
    IF denom # EvmDenom THEN Failed(L, Panic)
    ELSE LET L1 == BankRead(L, "GetBalance", "SpendableCoins", addr, "")
             cosmosAmount == L.bal[addr][CosmosDenom]
             evmAmount == L.bal[addr][denom]
             total == cosmosAmount * ConversionMultiplier + evmAmount
             whole == evmAmount \div ConversionMultiplier
         IN  [L1 EXCEPT !.value = total,
                        !.bal[addr][CosmosDenom] = @ + whole,
                        !.bal[addr][EvmDenom] = @ - whole * ConversionMultiplier,
                        !.sup[CosmosDenom] = @ + whole,
                        !.sup[EvmDenom] = @ - whole * ConversionMultiplier]

\* GetBalance: panics on a foreign denom, else cosmos * multiplier + evm of the spendable coins
GetBalance(L, addr, denom) ==
    IF denom # EvmDenom THEN Failed(L, Panic)
    ELSE LET L1 == BankRead(L, "GetBalance", "SpendableCoins", addr, "")
             cosmosAmount == L.bal[addr][CosmosDenom]
             evmAmount == L.bal[addr][denom]
             total == cosmosAmount * ConversionMultiplier + evmAmount
         IN  [L1 EXCEPT !.value = total]

\* MintCoins that mints the whole part only and drops the remainder
MintCoinsWholeOnly(L, moduleName, amt) ==
    LET s == SplitAoraiCoins(amt, EvmDenom, CosmosDenom)
        by == "MintCoins"
    IN  IF s.err # "" THEN Failed(L, s.err)
        ELSE IF s.orai.amount > 0
             THEN BankMintCoins(L, by, moduleName, s.orai)
             ELSE L

\* MintCoins that skips the validation and mints whatever the first coin carries
MintCoinsUnvalidated(L, moduleName, amt) ==
    LET amount == AmountOfFirst(amt)
        whole == amount \div ConversionMultiplier
        rest == amount % ConversionMultiplier
        by == "MintCoins"
        L1 == IF whole > 0
              THEN BankMintCoins(L, by, moduleName, NewCoin(CosmosDenom, whole))
              ELSE L
    IN  IF L1.err # "" THEN L1
        ELSE IF rest > 0
             THEN BankMintCoins(L1, by, moduleName, NewCoin(EvmDenom, rest))
             ELSE L1

MintCoins(L, moduleName, amt) ==
    LET s == SplitAoraiCoins(amt, EvmDenom, CosmosDenom)
        by == "MintCoins"
    IN  IF s.err # "" THEN Failed(L, s.err)
        ELSE LET L1 == IF s.orai.amount > 0
                       THEN BankMintCoins(L, by, moduleName, s.orai)
                       ELSE L
             IN  IF L1.err # "" THEN L1
                 ELSE IF s.aorai > 0
                      THEN BankMintCoins(L1, by, moduleName, NewCoin(EvmDenom, s.aorai))
                      ELSE L1

\* BurnCoins that breaks one more cosmos coin into evm coin when the module is
\* short of the remainder
BurnCoinsConverting(L, moduleName, amt) ==
    LET s == SplitAoraiCoins(amt, EvmDenom, CosmosDenom)
        by == "BurnCoins"
        moduleAddr == GetModuleAddress(moduleName)
        short == s.aorai > 0 /\ L.bal[moduleAddr][EvmDenom] < s.aorai
        L0 == IF short
              THEN BankMintCoins(L, by, moduleName, NewCoin(EvmDenom, ConversionMultiplier))
              ELSE L
        whole == IF short THEN s.orai.amount + 1 ELSE s.orai.amount
    IN  IF s.err # "" THEN Failed(L, s.err)
        ELSE IF L0.err # "" THEN L0
        ELSE LET L1 == IF whole > 0
                       THEN BankBurnCoins(L0, by, moduleName, NewCoin(CosmosDenom, whole))
                       ELSE L0
                 evmCoin == NewCoin(EvmDenom, s.aorai)
             IN  IF L1.err # "" THEN L1
                 ELSE IF s.aorai > 0
                      THEN BankBurnCoins(L1, by, moduleName, evmCoin)
                      ELSE L1

\* BurnCoins that burns the whole part only and leaves the remainder
BurnCoinsWholeOnly(L, moduleName, amt) ==
    LET s == SplitAoraiCoins(amt, EvmDenom, CosmosDenom)
        by == "BurnCoins"
    IN  IF s.err # "" THEN Failed(L, s.err)
        ELSE IF s.orai.amount > 0
             THEN BankBurnCoins(L, by, moduleName, s.orai)
             ELSE L

\* BurnCoins that goes on to the evm leg after the cosmos leg failed
BurnCoinsContinuing(L, moduleName, amt) ==
    LET s == SplitAoraiCoins(amt, EvmDenom, CosmosDenom)
        by == "BurnCoins"
    IN  IF s.err # "" THEN Failed(L, s.err)
        ELSE LET L1 == IF s.orai.amount > 0
                       THEN BankBurnCoins(L, by, moduleName, s.orai)
                       ELSE L
                 evmCoin == NewCoin(EvmDenom, s.aorai)
             IN  IF s.aorai > 0
                 THEN BankBurnCoins([L1 EXCEPT !.err = ""], by, moduleName, evmCoin)
                 ELSE L1

\* BurnCoins that gives the cosmos leg back when the evm leg fails
BurnCoinsRestoring(L, moduleName, amt) ==
    LET s == SplitAoraiCoins(amt, EvmDenom, CosmosDenom)
        by == "BurnCoins"
    IN  IF s.err # "" THEN Failed(L, s.err)
        ELSE LET L1 == IF s.orai.amount > 0
                       THEN BankBurnCoins(L, by, moduleName, s.orai)
                       ELSE L
                 evmCoin == NewCoin(EvmDenom, s.aorai)
             IN  IF L1.err # "" THEN L1
                 ELSE IF s.aorai > 0
                      THEN LET L2 == BankBurnCoins(L1, by, moduleName, evmCoin)
                           IN  IF L2.err # ""
                               THEN [L2 EXCEPT !.bal = L.bal, !.sup = L.sup]
                               ELSE L2
                      ELSE L1

BurnCoins(L, moduleName, amt) ==
    LET s == SplitAoraiCoins(amt, EvmDenom, CosmosDenom)
        by == "BurnCoins"
    IN  IF s.err # "" THEN Failed(L, s.err)
        ELSE LET L1 == IF s.orai.amount > 0
                       THEN BankBurnCoins(L, by, moduleName, s.orai)
                       ELSE L
                 evmCoin == NewCoin(EvmDenom, s.aorai)
             IN  IF L1.err # "" THEN L1
                 ELSE IF s.aorai > 0
                      THEN BankBurnCoins(L1, by, moduleName, evmCoin)
                      ELSE L1

\* ConvertEvmCoinToCosmosCoin that takes one evm coin less than it pays for
ConvertEvmCoinToCosmosCoinDiscount(L, addr, moduleName, cosmosCoin) ==
    LET by == "ConvertEvmCoinToCosmosCoin"
        cosmosAmountToReceive == cosmosCoin.amount
    IN  IF ~(cosmosAmountToReceive > 0) THEN L
        ELSE
        LET L1 == BankRead(L, by, "GetBalance", addr, cosmosCoin.denom)
            cosmosBalance == L.bal[addr][cosmosCoin.denom]
        IN  IF cosmosBalance >= cosmosCoin.amount THEN L1
            ELSE
            LET evmAmountToBurn == cosmosAmountToReceive * ConversionMultiplier - 1
                L2 == BankSendCoinsFromAccountToModule(L1, by, addr, moduleName,
                                                       NewCoin(EvmDenom, evmAmountToBurn))
            IN  IF L2.err # "" THEN L2
                ELSE
                LET cosmosCoinToReceive == NewCoin(CosmosDenom, cosmosAmountToReceive)
                    moduleAddr == GetModuleAddress(moduleName)
                    L3 == BankRead(L2, by, "GetBalance", moduleAddr, CosmosDenom)
                    moduleBalance == L2.bal[moduleAddr][CosmosDenom]
                    short == moduleBalance <= cosmosAmountToReceive
                    payer == IF short THEN EvmModuleName ELSE moduleName
                    L4 == IF short
                          THEN BankMintCoins(L3, by, EvmModuleName, cosmosCoinToReceive)
                          ELSE L3
                IN  IF L4.err # "" THEN L4
                    ELSE BankSendCoinsFromModuleToAccount(L4, by, payer, addr,
                                                          cosmosCoinToReceive)

\* ConvertEvmCoinToCosmosCoin: pays cosmosCoin to addr against cosmosCoin * multiplier
\* of its evm coin, unless addr already holds cosmosCoin
ConvertEvmCoinToCosmosCoin(L, addr, moduleName, cosmosCoin) ==
    LET by == "ConvertEvmCoinToCosmosCoin"
        cosmosAmountToReceive == cosmosCoin.amount
    IN  IF ~(cosmosAmountToReceive > 0) THEN L
        ELSE
        LET L1 == BankRead(L, by, "GetBalance", addr, cosmosCoin.denom)
            cosmosBalance == L.bal[addr][cosmosCoin.denom]
        IN  IF cosmosBalance >= cosmosCoin.amount THEN L1
            ELSE
            LET evmAmountToBurn == cosmosAmountToReceive * ConversionMultiplier
                L2 == BankSendCoinsFromAccountToModule(L1, by, addr, moduleName,
                                                       NewCoin(EvmDenom, evmAmountToBurn))
            IN  IF L2.err # "" THEN L2
                ELSE
                LET cosmosCoinToReceive == NewCoin(CosmosDenom, cosmosAmountToReceive)
                    moduleAddr == GetModuleAddress(moduleName)
                    L3 == BankRead(L2, by, "GetBalance", moduleAddr, CosmosDenom)
                    moduleBalance == L2.bal[moduleAddr][CosmosDenom]
                    short == moduleBalance <= cosmosAmountToReceive
                    payer == IF short THEN EvmModuleName ELSE moduleName
                    L4 == IF short
                          THEN BankMintCoins(L3, by, EvmModuleName, cosmosCoinToReceive)
                          ELSE L3
                IN  IF L4.err # "" THEN L4
                    ELSE BankSendCoinsFromModuleToAccount(L4, by, payer, addr,
                                                          cosmosCoinToReceive)

\* the sweep that rounds the number of units to convert up
ConvertRemainingRoundingUp(L, moduleName, addr) ==
    LET L1 == BankRead(L, "ConvertRemainingEvmCoinToCosmosCoin", "GetBalance", addr, EvmDenom)
        totalEvmCoin == NewCoin(EvmDenom, L.bal[addr][EvmDenom])
        s == SplitAoraiCoinsRoundUp(NewCoins(totalEvmCoin), EvmDenom, CosmosDenom)
    IN  IF s.err # "" THEN Failed(L1, s.err)
        ELSE ConvertEvmCoinToCosmosCoin(L1, addr, moduleName, s.orai)

\* the sweep that always converts at least one unit, dust or not
ConvertRemainingAtLeastOne(L, moduleName, addr) ==
    LET L1 == BankRead(L, "ConvertRemainingEvmCoinToCosmosCoin", "GetBalance", addr, EvmDenom)
        totalEvmCoin == NewCoin(EvmDenom, L.bal[addr][EvmDenom])
        s == SplitAoraiCoins(NewCoins(totalEvmCoin), EvmDenom, CosmosDenom)
        atLeastOne == NewCoin(CosmosDenom, IF s.orai.amount > 1 THEN s.orai.amount ELSE 1)
    IN  IF s.err # "" THEN Failed(L1, s.err)
        ELSE ConvertEvmCoinToCosmosCoin(L1, addr, moduleName,
                 NewCoin(CosmosDenom, L.bal[addr][CosmosDenom] + atLeastOne.amount))

\* ConvertRemainingEvmCoinToCosmosCoin: the sweep of addr's whole units of evm coin
ConvertRemainingEvmCoinToCosmosCoin(L, moduleName, addr) ==
    LET L1 == BankRead(L, "ConvertRemainingEvmCoinToCosmosCoin", "GetBalance", addr, EvmDenom)
        totalEvmCoin == NewCoin(EvmDenom, L.bal[addr][EvmDenom])
        s == SplitAoraiCoins(NewCoins(totalEvmCoin), EvmDenom, CosmosDenom)
    IN  IF s.err # "" THEN Failed(L1, s.err)
        ELSE ConvertEvmCoinToCosmosCoin(L1, addr, moduleName, s.orai)

\* ConvertOneCosmosCoinToEvmCoin that exchanges two cosmos coins instead of one
ConvertTwoCosmosCoinsToEvmCoin(L, addr, moduleName, evmCoinNeeded) ==
    LET by == "ConvertOneCosmosCoinToEvmCoin"
        L1 == BankRead(L, by, "GetBalance", addr, EvmDenom)
        evmBalance == L.bal[addr][EvmDenom]
    IN  IF evmBalance >= evmCoinNeeded.amount THEN L1
        ELSE
        LET cosmosCoinToStore == 2
            L2 == BankSendCoinsFromAccountToModule(L1, by, addr, moduleName,
                                                   NewCoin(CosmosDenom, cosmosCoinToStore))
        IN  IF L2.err # "" THEN L2
            ELSE
            LET evmAmount == cosmosCoinToStore * ConversionMultiplier
                evmCoin == NewCoin(EvmDenom, evmAmount)
                moduleAddr == GetModuleAddress(moduleName)
                L3 == BankRead(L2, by, "GetBalance", moduleAddr, EvmDenom)
                moduleBalance == L2.bal[moduleAddr][EvmDenom]
                short == moduleBalance <= evmAmount
                payer == IF short THEN EvmModuleName ELSE moduleName
                L4 == IF short THEN BankMintCoins(L3, by, EvmModuleName, evmCoin) ELSE L3
            IN  IF L4.err # "" THEN L4
                ELSE BankSendCoinsFromModuleToAccount(L4, by, payer, addr, evmCoin)

\* ConvertOneCosmosCoinToEvmCoin that mints on the evm module and still pays
\* from the named module
ConvertOneCosmosCoinToEvmCoinPayerKept(L, addr, moduleName, evmCoinNeeded) ==
    LET by == "ConvertOneCosmosCoinToEvmCoin"
        L1 == BankRead(L, by, "GetBalance", addr, EvmDenom)
        evmBalance == L.bal[addr][EvmDenom]
    IN  IF evmBalance >= evmCoinNeeded.amount THEN L1
        ELSE
        LET cosmosCoinToStore == 1
            L2 == BankSendCoinsFromAccountToModule(L1, by, addr, moduleName,
                                                   NewCoin(CosmosDenom, cosmosCoinToStore))
        IN  IF L2.err # "" THEN L2
            ELSE
            LET evmAmount == cosmosCoinToStore * ConversionMultiplier
                evmCoin == NewCoin(EvmDenom, evmAmount)
                moduleAddr == GetModuleAddress(moduleName)
                L3 == BankRead(L2, by, "GetBalance", moduleAddr, EvmDenom)
                moduleBalance == L2.bal[moduleAddr][EvmDenom]
                short == moduleBalance <= evmAmount
                L4 == IF short THEN BankMintCoins(L3, by, EvmModuleName, evmCoin) ELSE L3
            IN  IF L4.err # "" THEN L4
                ELSE BankSendCoinsFromModuleToAccount(L4, by, moduleName, addr, evmCoin)

\* ConvertOneCosmosCoinToEvmCoin that also converts when the balance just covers the need
ConvertOneCosmosCoinToEvmCoinEager(L, addr, moduleName, evmCoinNeeded) ==
    LET by == "ConvertOneCosmosCoinToEvmCoin"
        L1 == BankRead(L, by, "GetBalance", addr, EvmDenom)
        evmBalance == L.bal[addr][EvmDenom]
    IN  IF evmBalance > evmCoinNeeded.amount THEN L1
        ELSE
        LET cosmosCoinToStore == 1
            L2 == BankSendCoinsFromAccountToModule(L1, by, addr, moduleName,
                                                   NewCoin(CosmosDenom, cosmosCoinToStore))
        IN  IF L2.err # "" THEN L2
            ELSE
            LET evmAmount == cosmosCoinToStore * ConversionMultiplier
                evmCoin == NewCoin(EvmDenom, evmAmount)
                moduleAddr == GetModuleAddress(moduleName)
                L3 == BankRead(L2, by, "GetBalance", moduleAddr, EvmDenom)
                moduleBalance == L2.bal[moduleAddr][EvmDenom]
                short == moduleBalance <= evmAmount
                payer == IF short THEN EvmModuleName ELSE moduleName
                L4 == IF short THEN BankMintCoins(L3, by, EvmModuleName, evmCoin) ELSE L3
            IN  IF L4.err # "" THEN L4
                ELSE BankSendCoinsFromModuleToAccount(L4, by, payer, addr, evmCoin)

\* ConvertOneCosmosCoinToEvmCoin: exchanges one cosmos coin of addr for multiplier
\* evm coins when addr holds less evm coin than evmCoinNeeded
ConvertOneCosmosCoinToEvmCoin(L, addr, moduleName, evmCoinNeeded) ==
    LET by == "ConvertOneCosmosCoinToEvmCoin"
        L1 == BankRead(L, by, "GetBalance", addr, EvmDenom)
        evmBalance == L.bal[addr][EvmDenom]
    IN  IF evmBalance >= evmCoinNeeded.amount THEN L1
        ELSE
        LET cosmosCoinToStore == 1
            L2 == BankSendCoinsFromAccountToModule(L1, by, addr, moduleName,
                                                   NewCoin(CosmosDenom, cosmosCoinToStore))
        IN  IF L2.err # "" THEN L2
            ELSE
            LET evmAmount == cosmosCoinToStore * ConversionMultiplier
                evmCoin == NewCoin(EvmDenom, evmAmount)
                moduleAddr == GetModuleAddress(moduleName)
                L3 == BankRead(L2, by, "GetBalance", moduleAddr, EvmDenom)
                moduleBalance == L2.bal[moduleAddr][EvmDenom]
                short == moduleBalance <= evmAmount
                payer == IF short THEN EvmModuleName ELSE moduleName
                L4 == IF short THEN BankMintCoins(L3, by, EvmModuleName, evmCoin) ELSE L3
            IN  IF L4.err # "" THEN L4
                ELSE BankSendCoinsFromModuleToAccount(L4, by, payer, addr, evmCoin)

\* SendCoinsFromModuleToAccount that sends the whole part and drops the remainder
SendCoinsFromModuleToAccountWholeOnly(L, senderModule, recipientAddr, amt) ==
    LET s == SplitAoraiCoins(amt, EvmDenom, CosmosDenom)
        by == "SendCoinsFromModuleToAccount"
    IN  IF s.err # "" THEN Failed(L, s.err)
        ELSE
        LET L1 == IF s.orai.amount > 0
                  THEN BankSendCoinsFromModuleToAccount(L, by, senderModule, recipientAddr, s.orai)
                  ELSE L
        IN  IF L1.err # "" THEN L1
            ELSE ConvertRemainingEvmCoinToCosmosCoin(L1, senderModule, recipientAddr)

\* SendCoinsFromModuleToAccount that pays a positive remainder as one more cosmos coin
SendCoinsFromModuleToAccountRoundingUp(L, senderModule, recipientAddr, amt) ==
    LET s == SplitAoraiCoinsRoundUp(amt, EvmDenom, CosmosDenom)
        by == "SendCoinsFromModuleToAccount"
    IN  IF s.err # "" THEN Failed(L, s.err)
        ELSE
        LET L1 == IF s.orai.amount > 0
                  THEN BankSendCoinsFromModuleToAccount(L, by, senderModule, recipientAddr, s.orai)
                  ELSE L
        IN  IF L1.err # "" THEN L1
            ELSE ConvertRemainingEvmCoinToCosmosCoin(L1, senderModule, recipientAddr)

SendCoinsFromModuleToAccount(L, senderModule, recipientAddr, amt) ==
    LET s == SplitAoraiCoins(amt, EvmDenom, CosmosDenom)
        by == "SendCoinsFromModuleToAccount"
    IN  IF s.err # "" THEN Failed(L, s.err)
        ELSE
        LET L1 == IF s.orai.amount > 0
                  THEN BankSendCoinsFromModuleToAccount(L, by, senderModule, recipientAddr, s.orai)
                  ELSE L
            evmCoin == NewCoin(EvmDenom, s.aorai)
        IN  IF L1.err # "" THEN L1
            ELSE
            LET L2 == IF evmCoin.amount > 0
                      THEN BankSendCoinsFromModuleToAccount(L1, by, senderModule, recipientAddr,
                                                            evmCoin)
                      ELSE L1
            IN  IF L2.err # "" THEN L2
                ELSE ConvertRemainingEvmCoinToCosmosCoin(L2, senderModule, recipientAddr)

\* SendCoinsFromAccountToModule that converts for the whole part and never sends it
SendCoinsFromAccountToModuleRemainderOnly(L, senderAddr, recipientModule, amt) ==
    LET s == SplitAoraiCoins(amt, EvmDenom, CosmosDenom)
        by == "SendCoinsFromAccountToModule"
    IN  IF s.err # "" THEN Failed(L, s.err)
        ELSE
        LET L2 == IF s.orai.amount > 0
                  THEN ConvertEvmCoinToCosmosCoin(L, senderAddr, recipientModule, s.orai)
                  ELSE L
            evmCoin == NewCoin(EvmDenom, s.aorai)
        IN  IF L2.err # "" THEN L2
            ELSE
            LET L3 == IF evmCoin.amount > 0
                      THEN ConvertOneCosmosCoinToEvmCoin(L2, senderAddr, recipientModule, evmCoin)
                      ELSE L2
                L4 == IF evmCoin.amount > 0 /\ L3.err = ""
                      THEN BankSendCoinsFromAccountToModule(L3, by, senderAddr, recipientModule,
                                                            evmCoin)
                      ELSE L3
            IN  IF L4.err # "" THEN L4
                ELSE ConvertRemainingEvmCoinToCosmosCoin(L4, recipientModule, senderAddr)

\* SendCoinsFromAccountToModule that runs the remainder leg before the whole part
SendCoinsFromAccountToModuleRemainderFirst(L, senderAddr, recipientModule, amt) ==
    LET s == SplitAoraiCoins(amt, EvmDenom, CosmosDenom)
        by == "SendCoinsFromAccountToModule"
        evmCoin == NewCoin(EvmDenom, s.aorai)
    IN  IF s.err # "" THEN Failed(L, s.err)
        ELSE
        LET L1 == IF evmCoin.amount > 0
                  THEN ConvertOneCosmosCoinToEvmCoin(L, senderAddr, recipientModule, evmCoin)
                  ELSE L
            L2 == IF evmCoin.amount > 0 /\ L1.err = ""
                  THEN BankSendCoinsFromAccountToModule(L1, by, senderAddr, recipientModule,
                                                        evmCoin)
                  ELSE L1
        IN  IF L2.err # "" THEN L2
            ELSE
            LET L3 == IF s.orai.amount > 0
                      THEN ConvertEvmCoinToCosmosCoin(L2, senderAddr, recipientModule, s.orai)
                      ELSE L2
                L4 == IF s.orai.amount > 0 /\ L3.err = ""
                      THEN BankSendCoinsFromAccountToModule(L3, by, senderAddr, recipientModule,
                                                            s.orai)
                      ELSE L3
            IN  IF L4.err # "" THEN L4
                ELSE ConvertRemainingEvmCoinToCosmosCoin(L4, recipientModule, senderAddr)

\* SendCoinsFromAccountToModule that sends the whole part without converting
\* the sender's evm coin first
SendCoinsFromAccountToModuleDirect(L, senderAddr, recipientModule, amt) ==
    LET s == SplitAoraiCoins(amt, EvmDenom, CosmosDenom)
        by == "SendCoinsFromAccountToModule"
    IN  IF s.err # "" THEN Failed(L, s.err)
        ELSE
        LET L2 == IF s.orai.amount > 0
                  THEN BankSendCoinsFromAccountToModule(L, by, senderAddr, recipientModule, s.orai)
                  ELSE L
            evmCoin == NewCoin(EvmDenom, s.aorai)
        IN  IF L2.err # "" THEN L2
            ELSE
            LET L3 == IF evmCoin.amount > 0
                      THEN ConvertOneCosmosCoinToEvmCoin(L2, senderAddr, recipientModule, evmCoin)
                      ELSE L2
                L4 == IF evmCoin.amount > 0 /\ L3.err = ""
                      THEN BankSendCoinsFromAccountToModule(L3, by, senderAddr, recipientModule,
                                                            evmCoin)
                      ELSE L3
            IN  IF L4.err # "" THEN L4
                ELSE ConvertRemainingEvmCoinToCosmosCoin(L4, recipientModule, senderAddr)

\* SendCoinsFromAccountToModule that sends the whole part and drops the remainder
SendCoinsFromAccountToModuleWholeOnly(L, senderAddr, recipientModule, amt) ==
    LET s == SplitAoraiCoins(amt, EvmDenom, CosmosDenom)
        by == "SendCoinsFromAccountToModule"
    IN  IF s.err # "" THEN Failed(L, s.err)
        ELSE
        LET L1 == IF s.orai.amount > 0
                  THEN ConvertEvmCoinToCosmosCoin(L, senderAddr, recipientModule, s.orai)
                  ELSE L
            L2 == IF s.orai.amount > 0 /\ L1.err = ""
                  THEN BankSendCoinsFromAccountToModule(L1, by, senderAddr, recipientModule, s.orai)
                  ELSE L1
        IN  IF L2.err # "" THEN L2
            ELSE ConvertRemainingEvmCoinToCosmosCoin(L2, recipientModule, senderAddr)

\* SendCoinsFromAccountToModule without the IsPositive guard of the evm leg
SendCoinsFromAccountToModuleUnguarded(L, senderAddr, recipientModule, amt) ==
    LET s == SplitAoraiCoins(amt, EvmDenom, CosmosDenom)
        by == "SendCoinsFromAccountToModule"
    IN  IF s.err # "" THEN Failed(L, s.err)
        ELSE
        LET L1 == IF s.orai.amount > 0
                  THEN ConvertEvmCoinToCosmosCoin(L, senderAddr, recipientModule, s.orai)
                  ELSE L
            L2 == IF s.orai.amount > 0 /\ L1.err = ""
                  THEN BankSendCoinsFromAccountToModule(L1, by, senderAddr, recipientModule, s.orai)
                  ELSE L1
            evmCoin == NewCoin(EvmDenom, s.aorai)
        IN  IF L2.err # "" THEN L2
            ELSE
            LET L3 == ConvertOneCosmosCoinToEvmCoin(L2, senderAddr, recipientModule, evmCoin)
                L4 == IF L3.err = ""
                      THEN BankSendCoinsFromAccountToModule(L3, by, senderAddr, recipientModule,
                                                            evmCoin)
                      ELSE L3
            IN  IF L4.err # "" THEN L4
                ELSE ConvertRemainingEvmCoinToCosmosCoin(L4, recipientModule, senderAddr)

SendCoinsFromAccountToModule(L, senderAddr, recipientModule, amt) ==
    LET s == SplitAoraiCoins(amt, EvmDenom, CosmosDenom)
        by == "SendCoinsFromAccountToModule"
    IN  IF s.err # "" THEN Failed(L, s.err)
        ELSE
        LET L1 == IF s.orai.amount > 0
                  THEN ConvertEvmCoinToCosmosCoin(L, senderAddr, recipientModule, s.orai)
                  ELSE L
            L2 == IF s.orai.amount > 0 /\ L1.err = ""
                  THEN BankSendCoinsFromAccountToModule(L1, by, senderAddr, recipientModule, s.orai)
                  ELSE L1
            evmCoin == NewCoin(EvmDenom, s.aorai)
        IN  IF L2.err # "" THEN L2
            ELSE
            LET L3 == IF evmCoin.amount > 0
                      THEN ConvertOneCosmosCoinToEvmCoin(L2, senderAddr, recipientModule, evmCoin)
                      ELSE L2
                L4 == IF evmCoin.amount > 0 /\ L3.err = ""
                      THEN BankSendCoinsFromAccountToModule(L3, by, senderAddr, recipientModule,
                                                            evmCoin)
                      ELSE L3
            IN  IF L4.err # "" THEN L4
                ELSE ConvertRemainingEvmCoinToCosmosCoin(L4, recipientModule, senderAddr)

\* SendCoins that sweeps the recipient after the ledger send
SendCoinsSweeping(L, from, to, amt) ==
    LET L1 == BankSendCoins(L, "SendCoins", from, to, amt)
    IN  IF L1.err # "" THEN L1
        ELSE ConvertRemainingEvmCoinToCosmosCoin(L1, EvmModuleName, to)

\* SendCoins that accepts coin sets of the evm denom only
SendCoinsValidating(L, from, to, amt) ==
    IF ValidateEvmCoins(amt, EvmDenom) # "" THEN Failed(L, ErrInvalidCoins)
    ELSE BankSendCoins(L, "SendCoins", from, to, amt)

\* SendCoins: the bank keeper's SendCoins, as is
SendCoins(L, from, to, amt) == BankSendCoins(L, "SendCoins", from, to, amt)

----------------------------------------------------------------------------
(* Inputs *)

\* amounts of EvmDenom a caller passes
Amounts == 0..MaxAmount

\* coin sets a caller builds with sdk.NewCoins(sdk.NewCoin(EvmDenom, n))
EvmCoinSets == {NewCoins(NewCoin(EvmDenom, n)) : n \in Amounts}

\* coin sets ValidateEvmCoins has to reject
BadCoinSets ==
    { <<NewCoin(CosmosDenom, 1)>>,
      <<NewCoin(EvmDenom, 1), NewCoin(CosmosDenom, 1)>>,
      <<NewCoin(EvmDenom, -1)>> }

CoinSets == EvmCoinSets \cup BadCoinSets

----------------------------------------------------------------------------
(* State machine: one keeper call per step *)

NoCall == [name |-> "", addr |-> "", module |-> "", denom |-> "", coins |-> <<>>]

Call(name, addr, module, denom, coins) ==
    [name |-> name, addr |-> addr, module |-> module, denom |-> denom, coins |-> coins]

Init ==
    /\ ConversionMultiplier = Multiplier
    /\ \E start \in [Users -> 0..InitCosmos] :
          /\ bal = [a \in Addrs |-> [d \in LedgerDenoms |->
                       IF a \in Users /\ d = CosmosDenom THEN start[a] ELSE 0]]
          /\ sup = [d \in LedgerDenoms |->
                       IF d = CosmosDenom THEN start["A"] ELSE 0]
    /\ op = NoCall
    /\ out = Ledger(bal, sup)
    /\ pre = [bal |-> bal, sup |-> sup]

WithinCaps(s) ==
    /\ s[CosmosDenom] <= MaxCosmosSupply
    /\ s[EvmDenom] <= MaxEvmSupply

\* the call returned L: its effects are kept when it returned no error and are
\* rolled back with the enclosing transaction otherwise
Return(call, L) ==
    /\ op' = call
    /\ out' = L
    /\ pre' = [bal |-> bal, sup |-> sup]
    /\ IF L.err = ""
       THEN /\ WithinCaps(L.sup)
            /\ bal' = L.bal
            /\ sup' = L.sup
       ELSE UNCHANGED <<bal, sup>>
    /\ UNCHANGED ConversionMultiplier

CallGetBalance ==
    \E addr \in Addrs, denom \in Denoms :
        Return(Call("GetBalance", addr, "", denom, <<>>),
               GetBalance(Ledger(bal, sup), addr, denom))

CallMintCoins ==
    \E moduleName \in Modules, amt \in CoinSets :
        Return(Call("MintCoins", "", moduleName, "", amt),
               MintCoins(Ledger(bal, sup), moduleName, amt))

CallBurnCoins ==
    \E moduleName \in Modules, amt \in CoinSets :
        Return(Call("BurnCoins", "", moduleName, "", amt),
               BurnCoins(Ledger(bal, sup), moduleName, amt))

CallSendCoinsFromModuleToAccount ==
    \E senderModule \in Modules, recipientAddr \in Users, amt \in CoinSets :
        Return(Call("SendCoinsFromModuleToAccount", recipientAddr, senderModule, "", amt),
               SendCoinsFromModuleToAccount(Ledger(bal, sup), senderModule, recipientAddr, amt))

CallSendCoinsFromAccountToModule ==
    \E senderAddr \in Users, recipientModule \in Modules, amt \in CoinSets :
        Return(Call("SendCoinsFromAccountToModule", senderAddr, recipientModule, "", amt),
               SendCoinsFromAccountToModule(Ledger(bal, sup), senderAddr, recipientModule, amt))

CallConvertRemainingEvmCoinToCosmosCoin ==
    \E moduleName \in Modules, addr \in Users :
        Return(Call("ConvertRemainingEvmCoinToCosmosCoin", addr, moduleName, "", <<>>),
               ConvertRemainingEvmCoinToCosmosCoin(Ledger(bal, sup), moduleName, addr))

Next ==
    \/ CallGetBalance
    \/ CallMintCoins
    \/ CallBurnCoins
    \/ CallSendCoinsFromModuleToAccount
    \/ CallSendCoinsFromAccountToModule
    \/ CallConvertRemainingEvmCoinToCosmosCoin

Spec == Init /\ [][Next]_vars

----------------------------------------------------------------------------
(* SplitAoraiCoins as a function of its input alone: Init draws a coin set, *)
(* the one action applies the function and leaves its result in out.        *)

SplitAmounts == (-1)..(2 * MaxAmount)

AllCoinSets ==
    {<<>>}
    \cup {<<NewCoin(d, n)>> : d \in Denoms, n \in SplitAmounts}
    \cup {<<NewCoin(d1, n1), NewCoin(d2, n2)>> :
              d1 \in Denoms, d2 \in Denoms, n1 \in (-1)..1, n2 \in (-1)..1}

InitSplit ==
    /\ ConversionMultiplier = Multiplier
    /\ bal = [a \in Addrs |-> [d \in LedgerDenoms |-> 0]]
    /\ sup = [d \in LedgerDenoms |-> 0]
    /\ \E coins \in AllCoinSets : op = Call("input", "", "", "", coins)
    /\ out = [orai |-> NewCoin(CosmosDenom, 0), aorai |-> 0, err |-> ""]
    /\ pre = [bal |-> bal, sup |-> sup]

CallSplitAoraiCoins ==
    /\ op.name = "input"
    /\ op' = [op EXCEPT !.name = "SplitAoraiCoins"]
    /\ out' = SplitAoraiCoins(op.coins, EvmDenom, CosmosDenom)
    /\ UNCHANGED <<ConversionMultiplier, bal, sup, pre>>

NextSplit == CallSplitAoraiCoins

SpecSplit == InitSplit /\ [][NextSplit]_vars

----------------------------------------------------------------------------
(* Claims about SplitAoraiCoins, checked under SpecSplit *)

SplitDone == op.name = "SplitAoraiCoins"

\* the coin set holding amount n of EvmDenom, as sdk.NewCoins builds it
EvmCoins(n) == NewCoins(NewCoin(EvmDenom, n))

C3_SplitBoundary ==
    \A n \in SplitAmounts :
        (SplitDone /\ n >= 0 /\ op.coins = EvmCoins(n)) =>
            /\ (n % ConversionMultiplier = 0) => out.aorai = 0
            /\ (n < ConversionMultiplier) => (out.orai.amount = 0 /\ out.aorai = n)

C3_Witness ==
    /\ SplitDone
    /\ \/ /\ op.coins = EvmCoins(2 * ConversionMultiplier)
          /\ out.orai.amount = 2
          /\ out.aorai = 0
       \/ /\ op.coins = EvmCoins(ConversionMultiplier - 1)
          /\ out.orai.amount = 0
          /\ out.aorai = ConversionMultiplier - 1

\* the coin sets C4 says are rejected: more than one denomination (more than
\* one coin), a negative amount, or a single denomination other than EvmDenom
C4_Rejected(coins) ==
    \/ Len(coins) > 1
    \/ \E i \in 1..Len(coins) : coins[i].amount < 0
    \/ Len(coins) = 1 /\ coins[1].denom # EvmDenom

\* C4: split input validation.  SplitAoraiCoins returns the invalid-coins error
\* exactly for the coin sets of C4_Rejected; the empty set gives the zero split
\* without error; a single EvmDenom coin with a non-negative amount is accepted.
C4_SplitValidation ==
    SplitDone =>
        /\ (out.err = ErrInvalidCoins) <=> C4_Rejected(op.coins)
        /\ (out.err # "") => out.err = ErrInvalidCoins
        /\ (op.coins = <<>>) => (out.err = "" /\ out.orai.amount = 0 /\ out.aorai = 0)

----------------------------------------------------------------------------
(* Claims about the keeper's calls, checked under Spec *)

\* the amount of EvmDenom a coin set that passed validation carries
AmountOfCoins(coins) == IF Len(coins) = 0 THEN 0 ELSE coins[1].amount

\* the value GetBalance reports for an account of the balances b
ValueOf(b, a) == b[a][CosmosDenom] * ConversionMultiplier + b[a][EvmDenom]

RECURSIVE SumValue(_, _)
SumValue(S, b) ==
    IF S = {} THEN 0
    ELSE LET a == CHOOSE x \in S : TRUE
         IN  ValueOf(b, a) + SumValue(S \ {a}, b)

\* sum over the user accounts, the named escrow module and the EVM module
TotalValue(b) == SumValue(Addrs, b)

\* the calls of a trace that satisfy a filter, as a count and as a sum of amounts
RECURSIVE SumAmounts(_, _, _, _, _)
SumAmounts(calls, by, fn, denom, i) ==
    IF i > Len(calls) THEN 0
    ELSE (IF calls[i].by = by /\ calls[i].fn = fn /\ calls[i].denom = denom
          THEN calls[i].amount ELSE 0)
         + SumAmounts(calls, by, fn, denom, i + 1)

IsMutation(c) ==
    c.fn \in {"MintCoins", "BurnCoins", "SendCoinsFromAccountToModule",
              "SendCoinsFromModuleToAccount", "SendCoins"}

Mutations(calls) == {i \in 1..Len(calls) : IsMutation(calls[i])}

OtherBalancesKept(a) ==
    \A x \in Addrs \ {a} : bal[x] = pre.bal[x]

\* C1: no value creation.  A SendCoinsFromAccountToModule or
\* SendCoinsFromModuleToAccount call, completed or rolled back, leaves the sum
\* over all accounts of CosmosDenom * ConversionMultiplier + EvmDenom as it was.
C1_NoValueCreation ==
    (op.name \in {"SendCoinsFromAccountToModule", "SendCoinsFromModuleToAccount"}) =>
        TotalValue(bal) = TotalValue(pre.bal)

\* C5: GetBalance(addr, EvmDenom) returns the account's spendable CosmosDenom
\* balance times ConversionMultiplier plus its spendable EvmDenom balance.
C5_GetBalanceTotal ==
    (op.name = "GetBalance" /\ op.denom = EvmDenom) =>
        /\ out.err = ""
        /\ out.value = pre.bal[op.addr][CosmosDenom] * ConversionMultiplier
                       + pre.bal[op.addr][EvmDenom]

C5_Witness ==
    /\ op.name = "GetBalance"
    /\ op.denom = EvmDenom
    /\ pre.bal[op.addr][CosmosDenom] = 1
    /\ pre.bal[op.addr][EvmDenom] = 2
    /\ out.value = ConversionMultiplier + 2

\* C6: GetBalance with a denomination other than EvmDenom panics, returns no
\* balance and has not read the ledger.
C6_GetBalanceUnsupportedDenom ==
    (op.name = "GetBalance" /\ op.denom # EvmDenom) =>
        /\ out.err = Panic
        /\ out.calls = <<>>
        /\ out.value = 0

C6_Witness ==
    /\ op.name = "GetBalance"
    /\ op.denom = CosmosDenom
    /\ pre.bal[op.addr][CosmosDenom] > 0
    /\ out.err = Panic

\* C7: GetBalance is read-only: it leaves every balance and both supplies as
\* they were, and issues no mint, burn or send.
C7_GetBalanceReadOnly ==
    (op.name = "GetBalance") =>
        /\ bal = pre.bal
        /\ sup = pre.sup
        /\ out.bal = pre.bal
        /\ out.sup = pre.sup
        /\ Mutations(out.calls) = {}

C7_Witness ==
    /\ op.name = "GetBalance"
    /\ op.denom = EvmDenom
    /\ out.err = ""
    /\ pre.bal[op.addr][EvmDenom] >= ConversionMultiplier
    /\ out.value > 0

\* C8: a MintCoins(module, n) that succeeds adds n div ConversionMultiplier to
\* the module's CosmosDenom balance and n mod ConversionMultiplier to its
\* EvmDenom balance, issues one bank mint per positive leg and no other bank
\* call, and changes no other account.
C8_MintCoinsSplit ==
    (op.name = "MintCoins" /\ out.err = "") =>
        LET n == AmountOfCoins(op.coins)
            w == n \div ConversionMultiplier
            r == n % ConversionMultiplier
            m == GetModuleAddress(op.module)
        IN  /\ bal[m][CosmosDenom] = pre.bal[m][CosmosDenom] + w
            /\ bal[m][EvmDenom] = pre.bal[m][EvmDenom] + r
            /\ OtherBalancesKept(m)
            /\ Len(out.calls) = (IF w > 0 THEN 1 ELSE 0) + (IF r > 0 THEN 1 ELSE 0)
            /\ \A i \in 1..Len(out.calls) : out.calls[i].fn = "MintCoins"
            /\ SumAmounts(out.calls, "MintCoins", "MintCoins", CosmosDenom, 1) = w
            /\ SumAmounts(out.calls, "MintCoins", "MintCoins", EvmDenom, 1) = r

C8_Witness ==
    /\ op.name = "MintCoins"
    /\ out.err = ""
    /\ AmountOfCoins(op.coins) = ConversionMultiplier + 2
    /\ bal[GetModuleAddress(op.module)][CosmosDenom]
           = pre.bal[GetModuleAddress(op.module)][CosmosDenom] + 1
    /\ bal[GetModuleAddress(op.module)][EvmDenom]
           = pre.bal[GetModuleAddress(op.module)][EvmDenom] + 2

\* C9: a BurnCoins(module, n) that succeeds takes n div ConversionMultiplier
\* from the module's CosmosDenom balance and n mod ConversionMultiplier from its
\* EvmDenom balance, mints nothing and changes no other account; when either
\* leg exceeds the module's balance in that denomination the call fails, with
\* the bank's insufficient-funds error when the module may burn.
C9_BurnCoinsSplit ==
    (op.name = "BurnCoins" /\ ValidateEvmCoins(op.coins, EvmDenom) = "") =>
        LET n == AmountOfCoins(op.coins)
            w == n \div ConversionMultiplier
            r == n % ConversionMultiplier
            m == GetModuleAddress(op.module)
            exceeds == pre.bal[m][CosmosDenom] < w \/ pre.bal[m][EvmDenom] < r
        IN  /\ (out.err = "") =>
                /\ bal[m][CosmosDenom] = pre.bal[m][CosmosDenom] - w
                /\ bal[m][EvmDenom] = pre.bal[m][EvmDenom] - r
                /\ OtherBalancesKept(m)
                /\ \A i \in 1..Len(out.calls) : out.calls[i].fn = "BurnCoins"
            /\ exceeds => out.err # ""
            /\ (exceeds /\ op.module \in Burners) => out.err = ErrInsufficientFunds

C9_Witness ==
    /\ op.name = "BurnCoins"
    /\ out.err = ""
    /\ AmountOfCoins(op.coins) = ConversionMultiplier + 1
    /\ bal[GetModuleAddress(op.module)][CosmosDenom]
           = pre.bal[GetModuleAddress(op.module)][CosmosDenom] - 1
    /\ bal[GetModuleAddress(op.module)][EvmDenom]
           = pre.bal[GetModuleAddress(op.module)][EvmDenom] - 1

\* cosmos coin the one-unit conversion took from the sender, evm coin it paid
ConvertedCosmos(calls) ==
    SumAmounts(calls, "ConvertOneCosmosCoinToEvmCoin", "SendCoinsFromAccountToModule",
               CosmosDenom, 1)

ConvertedEvm(calls) ==
    SumAmounts(calls, "ConvertOneCosmosCoinToEvmCoin", "SendCoinsFromModuleToAccount",
               EvmDenom, 1)

\* C10: bounded conversion.  One SendCoinsFromAccountToModule call asks the bank
\* to exchange at most one CosmosDenom unit of the sender, for exactly
\* ConversionMultiplier EvmDenom, whatever the amount sent.
C10_BoundedConversion ==
    (op.name = "SendCoinsFromAccountToModule") =>
        /\ ConvertedCosmos(out.calls) <= 1
        /\ ConvertedEvm(out.calls) <= ConversionMultiplier
        /\ (out.err = "") =>
               ConvertedEvm(out.calls) = ConversionMultiplier * ConvertedCosmos(out.calls)

C10_Witness ==
    /\ op.name = "SendCoinsFromAccountToModule"
    /\ out.err = ""
    /\ AmountOfCoins(op.coins) = 1
    /\ pre.bal[op.addr][CosmosDenom] = 2
    /\ ConvertedCosmos(out.calls) = 1
    /\ ConvertedEvm(out.calls) = ConversionMultiplier

----------------------------------------------------------------------------
(* Claims about the send paths and the sweep, checked under Spec *)

SentToModule == op.name = "SendCoinsFromAccountToModule"
SentToAccount == op.name = "SendCoinsFromModuleToAccount"
Swept == op.name = "ConvertRemainingEvmCoinToCosmosCoin"

ValidAmount == ValidateEvmCoins(op.coins, EvmDenom) = ""
WholePart == AmountOfCoins(op.coins) \div ConversionMultiplier
Remainder == AmountOfCoins(op.coins) % ConversionMultiplier

\* C11: SendCoinsFromModuleToAccount mirrors the account-to-module path.  When
\* the remainder is positive, the sending module holds less EvmDenom than the
\* remainder and at least one CosmosDenom unit beyond the whole part, one
\* CosmosDenom unit of the module is converted into ConversionMultiplier
\* EvmDenom and the send succeeds.
C11_ModuleConversion ==
    LET m == GetModuleAddress(op.module)
    IN  (/\ SentToAccount
         /\ ValidAmount
         /\ Remainder > 0
         /\ pre.bal[m][EvmDenom] < Remainder
         /\ pre.bal[m][CosmosDenom] >= WholePart + 1) =>
            /\ out.err = ""
            /\ ValueOf(bal, op.addr) = ValueOf(pre.bal, op.addr) + AmountOfCoins(op.coins)

\* C12: source sweep.  After a successful SendCoinsFromAccountToModule the
\* sender holds less than ConversionMultiplier EvmDenom.
C12_SourceSweep ==
    (SentToModule /\ out.err = "") => bal[op.addr][EvmDenom] < ConversionMultiplier

\* C13: recipient sweep.  After a successful SendCoinsFromModuleToAccount the
\* recipient holds less than ConversionMultiplier EvmDenom.
C13_RecipientSweep ==
    (SentToAccount /\ out.err = "") => bal[op.addr][EvmDenom] < ConversionMultiplier

\* the sweep applied once more to the account the last call swept
SweptAgain == ConvertRemainingEvmCoinToCosmosCoin(Ledger(bal, sup), op.module, op.addr)

\* C14: idempotent sweep.  ConvertRemainingEvmCoinToCosmosCoin on an account
\* holding less than ConversionMultiplier EvmDenom mutates nothing and returns
\* no error; after a call that ended with the sweep of an account (the sweep
\* itself or one of the two sends), sweeping that account again changes nothing.
C14_IdempotentSweep ==
    /\ (Swept /\ pre.bal[op.addr][EvmDenom] < ConversionMultiplier) =>
           /\ out.err = ""
           /\ Mutations(out.calls) = {}
           /\ bal = pre.bal
           /\ sup = pre.sup
    /\ ((Swept \/ SentToModule \/ SentToAccount) /\ out.err = "") =>
           /\ SweptAgain.err = ""
           /\ SweptAgain.bal = bal
           /\ SweptAgain.sup = sup
           /\ Mutations(SweptAgain.calls) = {}

\* the last call converted evm coin of the account into cosmos coin
SweepConverted ==
    \E i \in 1..Len(out.calls) :
        /\ out.calls[i].by = "ConvertEvmCoinToCosmosCoin"
        /\ out.calls[i].fn = "SendCoinsFromModuleToAccount"
        /\ out.calls[i].denom = CosmosDenom

C14_Witness ==
    \/ /\ Swept
       /\ out.err = ""
       /\ pre.bal[op.addr][EvmDenom] > 0
       /\ pre.bal[op.addr][EvmDenom] < ConversionMultiplier
    \/ /\ SentToAccount
       /\ out.err = ""
       /\ SweepConverted

\* the original statement of Scenario D: sending the empty coin set from an
\* account to a module issues no ledger call, changes no balance, returns no error
C16_NoLedgerCall ==
    (SentToModule /\ op.coins = <<>>) =>
        /\ out.calls = <<>>
        /\ bal = pre.bal
        /\ out.err = ""

\* the calls of the sweep of the sender of the last call, from the state before it
SweepOfSender ==
    ConvertRemainingEvmCoinToCosmosCoin(Ledger(pre.bal, pre.sup), op.module, op.addr)

\* C16: Scenario D as the code runs it.  Sending the empty coin set from an
\* account to a module moves no coin for the amount and returns no error; its
\* ledger calls are those of the sweep of the sender, beginning with the read
\* of the sender's EvmDenom balance, and when that balance is below
\* ConversionMultiplier the read is the only call and no balance changes.
C16_EmptySendSweepsOnly ==
    (SentToModule /\ op.coins = <<>>) =>
        /\ out.err = ""
        /\ out.calls = SweepOfSender.calls
        /\ Len(out.calls) >= 1
        /\ out.calls[1].fn = "GetBalance"
        /\ out.calls[1].denom = EvmDenom
        /\ pre.bal[op.addr][EvmDenom] < ConversionMultiplier =>
               /\ Len(out.calls) = 1
               /\ bal = pre.bal
               /\ sup = pre.sup
        /\ Mutations(out.calls) = {} => bal = pre.bal

C16_Witness ==
    /\ SentToModule
    /\ op.coins = <<>>
    /\ out.err = ""
    /\ pre.bal[op.addr][EvmDenom] > 0

Mutating ==
    op.name \in {"MintCoins", "BurnCoins", "SendCoinsFromModuleToAccount",
                 "SendCoinsFromAccountToModule"}

\* C19: abort on first failure.  In MintCoins, BurnCoins and the two sends,
\* conversion and sweep included, a ledger call that returns an error is the
\* last ledger call made, and its error is the error returned.
C19_AbortOnFirstFailure ==
    Mutating =>
        \A i \in 1..Len(out.calls) :
            out.calls[i].err # "" =>
                /\ i = Len(out.calls)
                /\ out.err = out.calls[i].err

C19_Witness ==
    /\ Mutating
    /\ Len(out.calls) >= 2
    /\ out.calls[Len(out.calls)].err = ErrInsufficientFunds
    /\ out.err = ErrInsufficientFunds
    /\ \E i \in Mutations(out.calls) : i < Len(out.calls)

\* the balances and supply after the successful ledger calls of a trace
RECURSIVE Replay(_, _, _)
Replay(calls, i, S) ==
    IF i > Len(calls) THEN S
    ELSE LET c == calls[i]
             T == IF c.err # "" \/ ~IsMutation(c) THEN S
                  ELSE IF c.fn = "MintCoins"
                  THEN [bal |-> [S.bal EXCEPT ![c.to][c.denom] = @ + c.amount],
                        sup |-> [S.sup EXCEPT ![c.denom] = @ + c.amount]]
                  ELSE IF c.fn = "BurnCoins"
                  THEN [bal |-> [S.bal EXCEPT ![c.from][c.denom] = @ - c.amount],
                        sup |-> [S.sup EXCEPT ![c.denom] = @ - c.amount]]
                  ELSE [bal |-> [S.bal EXCEPT ![c.from][c.denom] = @ - c.amount,
                                              ![c.to][c.denom] = @ + c.amount],
                        sup |-> S.sup]
         IN  Replay(calls, i + 1, T)

\* C20: no compensation.  When a ledger call fails after earlier ones
\* succeeded, the error is returned with the effects of the earlier calls still
\* in the ledger state the call leaves; only the host's rollback undoes them.
C20_NoCompensation ==
    (Mutating /\ out.err # "") =>
        /\ [bal |-> out.bal, sup |-> out.sup] = Replay(out.calls, 1, pre)
        /\ bal = pre.bal
        /\ sup = pre.sup

C20_Witness ==
    /\ Mutating
    /\ out.err # ""
    /\ \E i \in Mutations(out.calls) : out.calls[i].err = "" /\ out.calls[i].amount > 0
    /\ out.bal # pre.bal
    /\ bal = pre.bal

----------------------------------------------------------------------------
(* SendCoins over a ledger that also holds a foreign denomination *)

\* the two addresses SendCoins is called between
SendParties == Users \cup {GetModuleAddress(EvmModuleName)}

SendAmounts == 0..MaxSend

\* coin sets handed to SendCoins: empty, one coin of any denomination (amount 0
\* included), two coins in and out of denomination order
SendCoinSets ==
    {<<>>}
    \cup {<<NewCoin(d, n)>> : d \in Denoms, n \in SendAmounts}
    \cup { <<NewCoin(EvmDenom, 1), NewCoin(OtherDenom, 1)>>,
           <<NewCoin(OtherDenom, 1), NewCoin(EvmDenom, 1)>> }

InitSend ==
    /\ ConversionMultiplier = Multiplier
    /\ \E start \in [Denoms -> 0..MaxEvmSupply] :
          /\ \A d \in Denoms \ {EvmDenom} : start[d] \in SendAmounts
          /\ bal = [a \in Addrs |-> [d \in Denoms |-> IF a \in Users THEN start[d] ELSE 0]]
          /\ sup = start
    /\ op = NoCall
    /\ out = Ledger(bal, sup)
    /\ pre = [bal |-> bal, sup |-> sup]

\* op.addr is the sender and op.module the recipient address
CallSendCoins ==
    \E from \in SendParties, to \in SendParties, amt \in SendCoinSets :
        Return(Call("SendCoins", from, to, "", amt),
               SendCoins(Ledger(bal, sup), from, to, amt))

NextSend == CallSendCoins

SpecSend == InitSend /\ [][NextSend]_vars

Sent == op.name = "SendCoins"

\* what the ledger's SendCoins does with the arguments of the last call
LedgerSend == BankSendCoins(Ledger(pre.bal, pre.sup), "SendCoins", op.addr, op.module, op.coins)

\* C17: SendCoins is a passthrough.  Its result and effect are exactly those of
\* the ledger's SendCoins on the same arguments: one ledger call, no split, no
\* conversion, no mint or burn, no sweep.
C17_SendCoinsPassthrough ==
    Sent =>
        /\ Len(out.calls) = 1
        /\ out.calls[1].fn = "SendCoins"
        /\ out.calls[1].from = op.addr
        /\ out.calls[1].to = op.module
        /\ out.err = LedgerSend.err
        /\ out.bal = LedgerSend.bal
        /\ out.sup = pre.sup
        /\ out.err = "" => bal = LedgerSend.bal /\ sup = pre.sup

C17_Witness ==
    /\ Sent
    /\ out.err = ""
    /\ op.addr # op.module
    /\ AmountOf(op.coins, EvmDenom) > 0
    /\ bal[op.module][EvmDenom] = pre.bal[op.module][EvmDenom] + AmountOf(op.coins, EvmDenom)
    /\ bal[op.module][EvmDenom] >= ConversionMultiplier

Foreign == \E i \in 1..Len(op.coins) : op.coins[i].denom \notin {EvmDenom, CosmosDenom}

\* the original statement: SendCoins rejects, without moving funds, a coin set
\* holding a denomination other than EvmDenom (and the settlement denomination)
C18_RejectsForeignDenom ==
    (Sent /\ Foreign) =>
        /\ out.err # ""
        /\ bal = pre.bal

\* C18: SendCoins validates nothing itself.  A coin set holding a foreign
\* denomination is handed to the ledger and moved when the ledger accepts it
\* (valid coin set, sender holds every coin); it is rejected without moving
\* funds exactly when the ledger rejects it.
C18_ForeignDenomPassed ==
    (Sent /\ Foreign) =>
        /\ (CoinsValidate(op.coins)
            /\ \A d \in Denoms : pre.bal[op.addr][d] >= AmountOf(op.coins, d)) =>
               /\ out.err = ""
               /\ op.addr # op.module =>
                      \A d \in Denoms :
                          /\ bal[op.module][d] = pre.bal[op.module][d] + AmountOf(op.coins, d)
                          /\ bal[op.addr][d] = pre.bal[op.addr][d] - AmountOf(op.coins, d)
        /\ out.err # "" =>
               /\ bal = pre.bal
               /\ Len(out.calls) = 1
               /\ out.err = out.calls[1].err
               /\ out.err \in {ErrInvalidCoins, ErrInsufficientFunds}

C18_Witness ==
    /\ Sent
    /\ Foreign
    /\ out.err = ""
    /\ op.addr # op.module
    /\ bal[op.module][OtherDenom] = pre.bal[op.module][OtherDenom] + 1

----------------------------------------------------------------------------
(* Scenario A of the specification, at its own multiplier *)

ScenarioMultiplier == 1000000
ScenarioBalance == 5
ScenarioAmount == 5200000

\* what A holds at the start: the scenario's balance, or up to ScenarioSlack more
ScenarioBalances == ScenarioBalance..(ScenarioBalance + ScenarioSlack)

\* amounts A sends: nothing, the scenario's remainder, one unit, the scenario's amount
ScenarioCoinSets ==
    {NewCoins(NewCoin(EvmDenom, n)) :
        n \in {0, ScenarioAmount % ScenarioMultiplier, ScenarioMultiplier, ScenarioAmount}}

InitScenario ==
    /\ ConversionMultiplier = ScenarioMultiplier
    /\ \E start \in ScenarioBalances :
          /\ bal = [a \in Addrs |-> [d \in LedgerDenoms |->
                       IF a \in Users /\ d = CosmosDenom THEN start ELSE 0]]
          /\ sup = [d \in LedgerDenoms |-> IF d = CosmosDenom THEN start ELSE 0]
    /\ op = NoCall
    /\ out = Ledger(bal, sup)
    /\ pre = [bal |-> bal, sup |-> sup]

\* the call returned L: kept when it returned no error, rolled back otherwise
Commit(call, L) ==
    /\ op' = call
    /\ out' = L
    /\ pre' = [bal |-> bal, sup |-> sup]
    /\ IF L.err = ""
       THEN bal' = L.bal /\ sup' = L.sup
       ELSE UNCHANGED <<bal, sup>>
    /\ UNCHANGED ConversionMultiplier

CallScenarioSend ==
    \E senderAddr \in Users, recipientModule \in Modules, amt \in ScenarioCoinSets :
        Commit(Call("SendCoinsFromAccountToModule", senderAddr, recipientModule, "", amt),
               SendCoinsFromAccountToModule(Ledger(bal, sup), senderAddr, recipientModule, amt))

NextScenario == CallScenarioSend

SpecScenario == InitScenario /\ [][NextScenario]_vars

\* the last call is the scenario's send by an account holding c CosmosDenom
\* and no EvmDenom
ScenarioSend(c) ==
    /\ SentToModule
    /\ op.coins = <<NewCoin(EvmDenom, ScenarioAmount)>>
    /\ pre.bal[op.addr][CosmosDenom] = c
    /\ pre.bal[op.addr][EvmDenom] = 0

\* a successful ledger call of the trace made by fn itself
Moved(by, fn, denom, amount) ==
    \E i \in 1..Len(out.calls) :
        /\ out.calls[i].by = by
        /\ out.calls[i].fn = fn
        /\ out.calls[i].denom = denom
        /\ out.calls[i].amount = amount
        /\ out.calls[i].err = ""

\* the original statement of Scenario A: the send of 5,200,000 by an account
\* holding 5 CosmosDenom and no EvmDenom succeeds and leaves it 0 and 800,000
C15_ScenarioSucceeds ==
    ScenarioSend(ScenarioBalance) =>
        /\ out.err = ""
        /\ bal[op.addr][CosmosDenom] = 0
        /\ bal[op.addr][EvmDenom] = 800000

\* C15: Scenario A as the code runs it.  With multiplier 1,000,000 the send of
\* 5,200,000 needs 6 CosmosDenom: an account holding 6 and no EvmDenom
\* succeeds, 5 CosmosDenom move directly, one more is converted into 1,000,000
\* EvmDenom, 200,000 move to the module and the account ends with 0 and 800,000;
\* an account holding 5 fails with insufficient funds when the conversion takes
\* the sixth unit, and the state is left as it was.
C15_ScenarioA ==
    /\ ScenarioSend(ScenarioBalance + 1) =>
           /\ out.err = ""
           /\ Moved("SendCoinsFromAccountToModule", "SendCoinsFromAccountToModule",
                    CosmosDenom, 5)
           /\ ConvertedCosmos(out.calls) = 1
           /\ ConvertedEvm(out.calls) = 1000000
           /\ Moved("SendCoinsFromAccountToModule", "SendCoinsFromAccountToModule",
                    EvmDenom, 200000)
           /\ bal[op.addr][CosmosDenom] = 0
           /\ bal[op.addr][EvmDenom] = 800000
    /\ ScenarioSend(ScenarioBalance) =>
           /\ out.err = ErrInsufficientFunds
           /\ out.calls[Len(out.calls)].by = "ConvertOneCosmosCoinToEvmCoin"
           /\ out.calls[Len(out.calls)].denom = CosmosDenom
           /\ out.calls[Len(out.calls)].amount = 1
           /\ bal = pre.bal
           /\ sup = pre.sup

C15_Witness ==
    /\ ScenarioSend(ScenarioBalance + 1)
    /\ out.err = ""
    /\ bal[op.addr][EvmDenom] = 800000

----------------------------------------------------------------------------
(* Claims about conversions, validation and the order of the steps *)

ContractViolation(coins) ==
    \/ Len(coins) > 1
    \/ \E i \in 1..Len(coins) : coins[i].amount < 0
    \/ \E i \in 1..Len(coins) : coins[i].denom # EvmDenom

\* C22: contract violations are never coerced.  MintCoins, BurnCoins and the
\* two sends, given an invalid coin set, return the validation error before
\* any ledger call, and every balance is unchanged.
C22_ViolationsNotCoerced ==
    (Mutating /\ ContractViolation(op.coins)) =>
        /\ out.err = ErrInvalidCoins
        /\ out.calls = <<>>
        /\ out.bal = pre.bal
        /\ out.sup = pre.sup
        /\ bal = pre.bal
        /\ sup = pre.sup

C22_Witness ==
    /\ Mutating
    /\ ContractViolation(op.coins)
    /\ out.err = ErrInvalidCoins
    /\ \E a \in Addrs : pre.bal[a][EvmDenom] > 0

\* the ledger after the first i calls of the last trace
LedgerAfter(i) == Replay(SubSeq(out.calls, 1, i), 1, pre)

\* positions in the trace of the calls of one keeper function to one ledger
\* function on one denomination
CallsOf(by, fn, denom) ==
    {i \in 1..Len(out.calls) :
        /\ out.calls[i].by = by
        /\ out.calls[i].fn = fn
        /\ out.calls[i].denom = denom}

\* the read of the sender's EvmDenom balance that opens the remainder leg
LiveReads ==
    {i \in CallsOf("ConvertOneCosmosCoinToEvmCoin", "GetBalance", EvmDenom) :
        out.calls[i].from = op.addr}

\* the one-unit CosmosDenom-to-EvmDenom conversion of the sender was started
ConversionTaken ==
    CallsOf("ConvertOneCosmosCoinToEvmCoin", "SendCoinsFromAccountToModule", CosmosDenom) # {}

\* the first call of the sweep, or one past the end of the trace
SweepStart ==
    LET S == CallsOf("ConvertRemainingEvmCoinToCosmosCoin", "GetBalance", EvmDenom)
    IN  IF S = {} THEN Len(out.calls) + 1 ELSE CHOOSE i \in S : \A j \in S : i <= j

\* C23: conversion trigger.  Within SendCoinsFromAccountToModule the one-unit
\* conversion of the sender happens if and only if the remainder is positive
\* and the sender's EvmDenom balance, read after the settlement leg, is less
\* than the remainder; when that balance covers the remainder, no CosmosDenom
\* of the sender is touched between the read and the sweep.
C23_ConversionTrigger ==
    (SentToModule /\ ValidAmount) =>
        /\ ConversionTaken <=>
               /\ Remainder > 0
               /\ \E i \in LiveReads : LedgerAfter(i).bal[op.addr][EvmDenom] < Remainder
        /\ (Remainder > 0 /\ LiveReads = {}) => out.err # ""
        /\ Remainder = 0 => LiveReads = {}
        /\ \A i \in LiveReads :
               LedgerAfter(i).bal[op.addr][EvmDenom] >= Remainder =>
                   \A j \in (i + 1)..(SweepStart - 1) : out.calls[j].denom # CosmosDenom

C23_Witness ==
    /\ SentToModule
    /\ out.err = ""
    /\ Remainder > 0
    /\ ConversionTaken
    /\ pre.bal[op.addr][EvmDenom] > 0

----------------------------------------------------------------------------
(* The sends and the sweep next to direct EvmDenom transfers, which hand an  *)
(* account EvmDenom that no sweep has seen                                   *)

\* SendCoins of EvmDenom between the user and the EVM module address
CallSendEvmCoin ==
    \E from \in SendParties, to \in SendParties, n \in 1..MaxSend :
        Return(Call("SendCoins", from, to, "", NewCoins(NewCoin(EvmDenom, n))),
               SendCoins(Ledger(bal, sup), from, to, NewCoins(NewCoin(EvmDenom, n))))

NextTransfer ==
    \/ CallSendEvmCoin
    \/ CallSendCoinsFromAccountToModule
    \/ CallSendCoinsFromModuleToAccount
    \/ CallConvertRemainingEvmCoinToCosmosCoin

SpecTransfer == Init /\ [][NextTransfer]_vars

\* the mutating calls of the settlement leg: those before the remainder leg
\* and the sweep
SettlementLeg ==
    {i \in Mutations(out.calls) :
        /\ i < SweepStart
        /\ \A j \in LiveReads : i < j}

\* call i moves the whole part in CosmosDenom from the sender to the module
WholeTransfer(i) ==
    /\ out.calls[i].by = "SendCoinsFromAccountToModule"
    /\ out.calls[i].fn = "SendCoinsFromAccountToModule"
    /\ out.calls[i].denom = CosmosDenom
    /\ out.calls[i].amount = WholePart
    /\ out.calls[i].from = op.addr
    /\ out.calls[i].to = GetModuleAddress(op.module)

\* the original statement: with a positive whole part the settlement leg is
\* one transfer of the whole part and nothing else, whatever the sender holds
C24_DirectSettlementLeg ==
    (SentToModule /\ ValidAmount /\ WholePart > 0) =>
        /\ Cardinality(SettlementLeg) = 1
        /\ \A i \in SettlementLeg : WholeTransfer(i)

\* call i takes the whole part times ConversionMultiplier in EvmDenom from the sender
EvmTaken(i) ==
    /\ out.calls[i].by = "ConvertEvmCoinToCosmosCoin"
    /\ out.calls[i].fn = "SendCoinsFromAccountToModule"
    /\ out.calls[i].denom = EvmDenom
    /\ out.calls[i].amount = WholePart * ConversionMultiplier
    /\ out.calls[i].from = op.addr

\* C24: the settlement leg.  With a positive whole part, a sender whose
\* CosmosDenom balance covers the whole part has it moved by one transfer and
\* nothing else; a sender short of it first has whole part * ConversionMultiplier
\* of its EvmDenom converted (taken by the module, the whole part paid back in
\* CosmosDenom, minted when the module is short), and the transfer follows
\* only when that conversion succeeded.
C24_SettlementLeg ==
    (SentToModule /\ ValidAmount /\ WholePart > 0) =>
        /\ pre.bal[op.addr][CosmosDenom] >= WholePart =>
               /\ Cardinality(SettlementLeg) = 1
               /\ \A i \in SettlementLeg : WholeTransfer(i) /\ out.calls[i].err = ""
        /\ pre.bal[op.addr][CosmosDenom] < WholePart =>
               /\ SettlementLeg # {}
               /\ \E i \in SettlementLeg :
                      /\ EvmTaken(i)
                      /\ \A j \in SettlementLeg : i <= j
               /\ \A i \in SettlementLeg :
                      WholeTransfer(i) =>
                          /\ \A j \in SettlementLeg : j <= i
                          /\ LedgerAfter(i - 1).bal[op.addr][CosmosDenom] =
                                 pre.bal[op.addr][CosmosDenom] + WholePart
                          /\ LedgerAfter(i - 1).bal[op.addr][EvmDenom] =
                                 pre.bal[op.addr][EvmDenom] - WholePart * ConversionMultiplier

C24_Witness ==
    /\ SentToModule
    /\ WholePart > 0
    /\ pre.bal[op.addr][CosmosDenom] < WholePart
    /\ out.err = ""
    /\ \E i \in SettlementLeg : WholeTransfer(i)

\* the ledger R differs from the current one, for the account a, by k
\* CosmosDenom gained and k * ConversionMultiplier EvmDenom given
ExactRate(R, a, k) ==
    /\ R.bal[a][CosmosDenom] = bal[a][CosmosDenom] + k
    /\ R.bal[a][EvmDenom] = bal[a][EvmDenom] - k * ConversionMultiplier
    /\ ValueOf(R.bal, a) = ValueOf(bal, a)

\* C25: exact-rate conversion.  A conversion or sweep step that completes
\* changes the converted account's CosmosDenom balance by a whole number k and
\* its EvmDenom balance by k * ConversionMultiplier the other way, so that the
\* value GetBalance reports for the account is unchanged.  Each of the three
\* steps is applied to every reachable ledger.
C25_ExactRateConversion ==
    \A a \in Users, m \in Modules :
        /\ \A n \in 1..MaxAmount :
               LET R == ConvertOneCosmosCoinToEvmCoin(Ledger(bal, sup), a, m,
                                                      NewCoin(EvmDenom, n))
               IN  R.err = "" => (ExactRate(R, a, 0) \/ ExactRate(R, a, -1))
        /\ \A k \in 1..MaxCosmosSupply :
               LET R == ConvertEvmCoinToCosmosCoin(Ledger(bal, sup), a, m,
                                                   NewCoin(CosmosDenom, k))
               IN  R.err = "" => (ExactRate(R, a, 0) \/ ExactRate(R, a, k))
        /\ LET R == ConvertRemainingEvmCoinToCosmosCoin(Ledger(bal, sup), m, a)
           IN  R.err = "" =>
                   (ExactRate(R, a, 0) \/ ExactRate(R, a, bal[a][EvmDenom] \div ConversionMultiplier))

\* a ledger, left by a direct transfer, where the sweep and the conversion to
\* CosmosDenom both convert
C25_Witness ==
    \E a \in Users, m \in Modules :
        /\ op.name = "SendCoins"
        /\ bal[a][CosmosDenom] = 0
        /\ bal[a][EvmDenom] >= ConversionMultiplier
        /\ LET R == ConvertRemainingEvmCoinToCosmosCoin(Ledger(bal, sup), m, a)
           IN  R.err = "" /\ R.bal[a][CosmosDenom] > 0
        /\ LET R == ConvertEvmCoinToCosmosCoin(Ledger(bal, sup), a, m, NewCoin(CosmosDenom, 1))
           IN  R.err = "" /\ R.bal[a][CosmosDenom] = 1

\* the mints a conversion made in the last call
TopUps ==
    {i \in 1..Len(out.calls) :
        /\ out.calls[i].fn = "MintCoins"
        /\ out.calls[i].by \in {"ConvertOneCosmosCoinToEvmCoin", "ConvertEvmCoinToCosmosCoin"}}

\* C26: top-up only when short.  A conversion mints only if the named module
\* holds less of the denomination than the amount to pay out; a module holding
\* at least that amount pays from its own balance and nothing is minted.
C26_TopUpOnlyWhenShort ==
    (SentToModule \/ SentToAccount \/ Swept) =>
        \A i \in TopUps :
            LedgerAfter(i - 1).bal[GetModuleAddress(op.module)][out.calls[i].denom]
                < out.calls[i].amount

\* call i pays the account of the last call what call i - 1 minted on the EVM module
PaysOn(i) ==
    /\ i <= Len(out.calls)
    /\ out.calls[i].fn = "SendCoinsFromModuleToAccount"
    /\ out.calls[i].from = GetModuleAddress(EvmModuleName)
    /\ out.calls[i].to = op.addr
    /\ out.calls[i].denom = out.calls[i - 1].denom
    /\ out.calls[i].amount = out.calls[i - 1].amount

\* C27: the fallback escrow is pass-through.  In a send whose named module is
\* not the EVM module, every top-up mint is made on the EVM module and is at
\* once sent on to the converting account, and after a successful call the EVM
\* module holds what it held before.
C27_FallbackPassThrough ==
    ((SentToModule \/ SentToAccount) /\ op.module # EvmModuleName) =>
        /\ \A i \in TopUps :
               /\ out.calls[i].to = GetModuleAddress(EvmModuleName)
               /\ out.calls[i].err = "" => PaysOn(i + 1)
        /\ out.err = "" =>
               bal[GetModuleAddress(EvmModuleName)] = pre.bal[GetModuleAddress(EvmModuleName)]

C27_Witness ==
    /\ SentToModule
    /\ op.module # EvmModuleName
    /\ out.err = ""
    /\ TopUps # {}
    /\ pre.bal[GetModuleAddress(EvmModuleName)][EvmDenom] > 0

\* the steps of SendCoinsFromAccountToModule in the trace of the last call
WholeStep == CallsOf("SendCoinsFromAccountToModule", "SendCoinsFromAccountToModule", CosmosDenom)
ConversionStep == {i \in 1..Len(out.calls) : out.calls[i].by = "ConvertOneCosmosCoinToEvmCoin"}
RemainderStep == CallsOf("SendCoinsFromAccountToModule", "SendCoinsFromAccountToModule", EvmDenom)
SweepStep == SweepStart..Len(out.calls)

Precedes(S, T) == \A i \in S, j \in T : i < j

\* C28: step ordering of SendCoinsFromAccountToModule.  The transfer of the
\* whole part precedes the one-unit conversion of the sender, which precedes
\* the transfer of the remainder, which precedes the sweep; the sweep is issued
\* only if every earlier step succeeded, and then it is issued.
C28_StepOrdering ==
    (SentToModule /\ ValidAmount) =>
        /\ Precedes(WholeStep, ConversionStep)
        /\ Precedes(WholeStep, RemainderStep)
        /\ Precedes(ConversionStep, RemainderStep)
        /\ Precedes(WholeStep \cup ConversionStep \cup RemainderStep, SweepStep)
        /\ SweepStep # {} => \A i \in 1..(SweepStart - 1) : out.calls[i].err = ""
        /\ SweepStep = {} => out.err # ""
        /\ out.err = "" =>
               /\ WholePart > 0 => Cardinality(WholeStep) = 1
               /\ Remainder > 0 => Cardinality(RemainderStep) = 1

C28_Witness ==
    /\ SentToModule
    /\ out.err = ""
    /\ WholeStep # {}
    /\ ConversionStep \cap Mutations(out.calls) # {}
    /\ RemainderStep # {}
    /\ SweepStep # {}

\* every debit of the trace of R from position i on is covered by the balance
\* debited, R being what a keeper call returned from the ledger S
Covered(R, S, i) ==
    \A j \in i..Len(R.calls) :
        LET c == R.calls[j]
        IN  (IsMutation(c) /\ c.fn # "MintCoins") =>
                Replay(SubSeq(R.calls, 1, j - 1), 1, S).bal[c.from][c.denom] >= c.amount

NoNegativeBalance(b) == \A a \in DOMAIN b : \A d \in DOMAIN b[a] : b[a][d] >= 0

\* C29: the sweep never fails for lack of funds.  Whenever the sweep converts
\* k > 0 units, the account holds k * ConversionMultiplier EvmDenom when it is
\* debited and the paying module holds k CosmosDenom when it pays, so the sweep
\* returns no error and leaves no negative balance.  The sweep is applied to
\* every reachable ledger, and the sweep that closes a send is read off its trace.
C29_SweepNeverFails ==
    /\ \A a \in Users, m \in Modules :
           LET S == [bal |-> bal, sup |-> sup]
               R == ConvertRemainingEvmCoinToCosmosCoin(Ledger(bal, sup), m, a)
           IN  /\ R.err = ""
               /\ Covered(R, S, 1)
               /\ NoNegativeBalance(R.bal)
               /\ \A i \in 1..Len(R.calls) : R.calls[i].err = ""
    /\ (SentToModule \/ SentToAccount \/ Swept) =>
           /\ Covered(out, pre, SweepStart)
           /\ \A i \in SweepStep : out.calls[i].err = ""
           /\ SweepStep # {} => out.err = ""
           /\ NoNegativeBalance(out.bal)

C29_Witness ==
    /\ Swept
    /\ out.err = ""
    /\ pre.bal[op.addr][EvmDenom] >= ConversionMultiplier
    /\ bal[op.addr][CosmosDenom] =
           pre.bal[op.addr][CosmosDenom] + pre.bal[op.addr][EvmDenom] \div ConversionMultiplier
    /\ bal[op.addr][EvmDenom] < ConversionMultiplier

\* C30: exact debit.  A successful SendCoinsFromAccountToModule(A, M, n)
\* lowers the value GetBalance reports for A by exactly n, whichever
\* conversions and sweep ran on A during the call.
C30_ExactDebit ==
    (SentToModule /\ out.err = "") =>
        /\ ValueOf(bal, op.addr) = ValueOf(pre.bal, op.addr) - AmountOfCoins(op.coins)
        /\ GetBalance(Ledger(bal, sup), op.addr, EvmDenom).value =
               GetBalance(Ledger(pre.bal, pre.sup), op.addr, EvmDenom).value
                   - AmountOfCoins(op.coins)

C30_Witness ==
    /\ SentToModule
    /\ out.err = ""
    /\ AmountOfCoins(op.coins) > ConversionMultiplier
    /\ ConversionTaken
    /\ bal[op.addr][EvmDenom] > 0

----------------------------------------------------------------------------
(* Claims about what an account can receive and spend, and about the calls   *)
(* the virtual machine makes in pairs                                        *)

\* C31: exact credit.  A successful SendCoinsFromModuleToAccount(M, B, n)
\* raises the value GetBalance reports for B by exactly n, whether or not B
\* was swept at the end of the call.
C31_ExactCredit ==
    (SentToAccount /\ out.err = "") =>
        /\ ValueOf(bal, op.addr) = ValueOf(pre.bal, op.addr) + AmountOfCoins(op.coins)
        /\ GetBalance(Ledger(bal, sup), op.addr, EvmDenom).value =
               GetBalance(Ledger(pre.bal, pre.sup), op.addr, EvmDenom).value
                   + AmountOfCoins(op.coins)

C31_Witness ==
    /\ SentToAccount
    /\ out.err = ""
    /\ Remainder > 0
    /\ SweepConverted
    /\ bal[op.addr][CosmosDenom] > pre.bal[op.addr][CosmosDenom] + WholePart

\* amounts up to what an account is worth
Spendable(a) == 0..ValueOf(bal, a)

\* C32: spendability of the reported balance.  In every reachable state, an
\* amount n that GetBalance(A, EvmDenom) covers can be sent by
\* SendCoinsFromAccountToModule(A, M, n), however A's value is split between
\* its CosmosDenom and EvmDenom balances.
C32_Spendable ==
    \A a \in Users, m \in Modules :
        \A n \in Spendable(a) :
            SendCoinsFromAccountToModule(Ledger(bal, sup), a, m,
                                         NewCoins(NewCoin(EvmDenom, n))).err = ""

\* amounts of up to two whole units
PairAmounts == 0..(2 * ConversionMultiplier)

\* one keeper call immediately followed by another on the ledger it left; the
\* second is not made when the first failed
MintThenBurn(L, moduleName, amt) ==
    LET L1 == MintCoins(L, moduleName, amt)
    IN  IF L1.err # "" THEN L1 ELSE BurnCoins(L1, moduleName, amt)

MintThenSend(L, recipientAddr, amt) ==
    LET L1 == MintCoins(L, EvmModuleName, amt)
    IN  IF L1.err # "" THEN L1
        ELSE SendCoinsFromModuleToAccount(L1, EvmModuleName, recipientAddr, amt)

\* C33: mint/burn round trip.  In every reachable state and for every amount
\* n, MintCoins(M, n) immediately followed by BurnCoins(M, n), M holding the
\* mint and burn permissions, both succeed and leave M's balances and both
\* supplies as they were.
C33_MintBurnRoundTrip ==
    \A m \in Minters \cap Burners, n \in PairAmounts :
        LET amt == NewCoins(NewCoin(EvmDenom, n))
            L1 == MintCoins(Ledger(bal, sup), m, amt)
            L2 == MintThenBurn(Ledger(bal, sup), m, amt)
        IN  /\ L1.err = ""
            /\ L2.err = ""
            /\ L2.bal = bal
            /\ L2.sup = sup
            /\ n > 0 => L1.bal[GetModuleAddress(m)] # bal[GetModuleAddress(m)]

\* a module holding both denominations, where the pair mints and burns both
C33_Witness ==
    \E m \in Minters \cap Burners :
        LET amt == NewCoins(NewCoin(EvmDenom, 2 * ConversionMultiplier - 1))
            L1 == MintCoins(Ledger(bal, sup), m, amt)
        IN  /\ bal[GetModuleAddress(m)][CosmosDenom] > 0
            /\ bal[GetModuleAddress(m)][EvmDenom] > 0
            /\ L1.bal[GetModuleAddress(m)][CosmosDenom] > bal[GetModuleAddress(m)][CosmosDenom]
            /\ L1.bal[GetModuleAddress(m)][EvmDenom] > bal[GetModuleAddress(m)][EvmDenom]
            /\ MintThenBurn(Ledger(bal, sup), m, amt).bal = bal

\* C34: the credit pattern of the virtual machine completes.  From every
\* reachable state, MintCoins(EVM module, n) immediately followed by
\* SendCoinsFromModuleToAccount(EVM module, B, n) succeeds for every amount n
\* and recipient B, also when the closing sweep of B converts, and B's
\* reported balance rises by n.
C34_CreditPattern ==
    \A b \in Users, n \in PairAmounts :
        LET R == MintThenSend(Ledger(bal, sup), b, NewCoins(NewCoin(EvmDenom, n)))
        IN  /\ R.err = ""
            /\ \A i \in 1..Len(R.calls) : R.calls[i].err = ""
            /\ ValueOf(R.bal, b) = ValueOf(bal, b) + n

\* a state where the credit pattern ends in a sweep that converts
C34_Witness ==
    \E b \in Users, n \in PairAmounts :
        LET R == MintThenSend(Ledger(bal, sup), b, NewCoins(NewCoin(EvmDenom, n)))
        IN  /\ R.err = ""
            /\ n % ConversionMultiplier > 0
            /\ bal[b][EvmDenom] > 0
            /\ \E i \in 1..Len(R.calls) :
                   /\ R.calls[i].by = "ConvertEvmCoinToCosmosCoin"
                   /\ R.calls[i].fn = "SendCoinsFromModuleToAccount"
                   /\ R.calls[i].denom = CosmosDenom

\* C35: the debit pattern of the virtual machine completes.  From every
\* reachable state, when SendCoinsFromAccountToModule(A, EVM module, n)
\* succeeds, the module then holds floor(n / ConversionMultiplier) CosmosDenom
\* and n mod ConversionMultiplier EvmDenom, so that BurnCoins(EVM module, n)
\* issued next succeeds.
C35_DebitPattern ==
    \A a \in Users, n \in PairAmounts :
        LET amt == NewCoins(NewCoin(EvmDenom, n))
            L1 == SendCoinsFromAccountToModule(Ledger(bal, sup), a, EvmModuleName, amt)
            m == GetModuleAddress(EvmModuleName)
        IN  L1.err = "" =>
                /\ L1.bal[m][CosmosDenom] >= n \div ConversionMultiplier
                /\ L1.bal[m][EvmDenom] >= n % ConversionMultiplier
                /\ BurnCoins(L1, EvmModuleName, amt).err = ""

====
